---- MODULE Spec2Model ----
(***************************************************************************)
(* mtm::set<T, CmpFcn> (mtm_set.hpp), the typed adapter over the C set     *)
(* engine declared in mtm_set.h, instantiated with T = int.                *)
(*                                                                         *)
(* Pointers are numbers: NULL is 0, an engine handle (Set) is an address   *)
(* of the heap, an element pointer is the value it points to (values start *)
(* at 1, so no element pointer is NULL), and a SetIterator is the index of *)
(* a slot of the handle's ordered sequence.  The engine's implementation   *)
(* is not part of the sources: its operations follow the contract stated   *)
(* for them (mtm_set.h and the engine section of the specification).       *)
(* assert() is compiled in: a failed assertion ends the program.           *)
(* operator new for a single T is taken to succeed; the allocation         *)
(* failures modelled are the ones the engine reports (SET_OUT_OF_MEMORY,   *)
(* a NULL handle from setCreate / setCopy).                                *)
(***************************************************************************)
EXTENDS Integers, Sequences, FiniteSets, TLC

\* Bound: the stored values are 1..MaxVal.
MaxVal == 3

\* The null pointer.
NULL == 0

Values == 1..MaxVal

\* The set objects of the program (set_test.cpp declares sett, set2, set3).
SetIds == {"sett", "set2"}

\* Heap addresses for engine handles: one per set object is enough, since
\* every object owns at most one handle.
Addr == 1..Cardinality(SetIds)

VARIABLES
    heap,        \* heap[a]: the Set_t at address a: [used, elems]
    m_CSet,      \* m_CSet[s]: the handle owned by set object s (NULL or an address)
    constructed, \* constructed[s]: s has been constructed
    it,          \* the const_iterator the caller holds: [m_Owner, m_Current]
    cmp,         \* the CmpFcn the sets are instantiated with
    last         \* the last member-function call and its outcome

vars == <<heap, m_CSet, constructed, it, cmp, last>>

FreeCell == [used |-> FALSE, elems |-> <<>>]

----------------------------------------------------------------------------
\* The order predicate.  "less" is std::less<int>; "lessHalf" orders ints by
\* (x + 1) \div 2, so that 1 and 2 are equivalent without being ==.
CmpFcn(a, b) ==
    IF cmp = "less" THEN a < b ELSE ((a + 1) \div 2) < ((b + 1) \div 2)

\* Mutant of CompareElementFcn: the signs of the two outcomes exchanged.
CompareElementFcn_swapped(left, right) ==
    IF left = NULL \/ right = NULL THEN 0
    ELSE IF CmpFcn(left, right) THEN 1
    ELSE IF CmpFcn(right, left) THEN -1
    ELSE 0

\* set::CompareElementFcn: the three-way compare handed to setCreate.
CompareElementFcn(left, right) ==
    IF left = NULL \/ right = NULL THEN 0
    ELSE IF CmpFcn(left, right) THEN -1
    ELSE IF CmpFcn(right, left) THEN 1
    ELSE 0

\* set::CopyElementFcn: a new T copy-constructed from *lmnt.
CopyElementFcn(lmnt) == IF lmnt = NULL THEN NULL ELSE lmnt

----------------------------------------------------------------------------
\* The engine (mtm_set.h).

\* The slot the ascending scan for element stops at: the first slot whose
\* element is not less than element, or one past the last slot.
ScanStop(elems, element) ==
    CHOOSE i \in 1..(Len(elems) + 1) :
        /\ i = Len(elems) + 1 \/ CompareElementFcn(elems[i], element) >= 0
        /\ \A j \in 1..(i - 1) : CompareElementFcn(elems[j], element) < 0

\* The lowest free heap address, NULL when there is none.
Alloc(hp) ==
    IF \E a \in Addr : ~hp[a].used
    THEN CHOOSE a \in Addr : ~hp[a].used /\ \A b \in Addr : b < a => hp[b].used
    ELSE NULL

setCreate(hp, oom) ==
    LET a == Alloc(hp) IN
    IF oom \/ a = NULL THEN [set |-> NULL, heap |-> hp]
    ELSE [set |-> a, heap |-> [hp EXCEPT ![a] = [used |-> TRUE, elems |-> <<>>]]]

\* The stored copy function applied to every element, in order.
RECURSIVE CopyElements(_)
CopyElements(elems) ==
    IF elems = <<>> THEN <<>>
    ELSE <<CopyElementFcn(Head(elems))>> \o CopyElements(Tail(elems))

setCopy(hp, set, oom) ==
    LET a == Alloc(hp) IN
    IF set = NULL \/ oom \/ a = NULL THEN [set |-> NULL, heap |-> hp]
    ELSE [set |-> a,
          heap |-> [hp EXCEPT ![a] =
                       [used |-> TRUE, elems |-> CopyElements(hp[set].elems)]]]

setDestroy(hp, set) ==
    IF set = NULL THEN hp ELSE [hp EXCEPT ![set] = FreeCell]

setGetSize(hp, set) ==
    IF set = NULL THEN -1 ELSE Len(hp[set].elems)

setGetFirst(hp, set) ==
    IF set = NULL THEN NULL
    ELSE IF Len(hp[set].elems) = 0 THEN NULL ELSE 1

setGetNext(hp, set, iter) ==
    IF set = NULL \/ iter = NULL THEN NULL
    ELSE IF iter \in 1..(Len(hp[set].elems) - 1) THEN iter + 1 ELSE NULL

setGetElement(hp, set, iter) ==
    IF set = NULL \/ iter = NULL THEN NULL
    ELSE IF iter \in 1..Len(hp[set].elems) THEN hp[set].elems[iter] ELSE NULL

setAdd(hp, set, element, oom) ==
    IF set = NULL THEN [res |-> "SET_NULL_ARGUMENT", heap |-> hp]
    ELSE LET elems == hp[set].elems
             i == ScanStop(elems, element)
         IN IF i <= Len(elems) /\ CompareElementFcn(elems[i], element) = 0
            THEN [res |-> "SET_ITEM_ALREADY_EXISTS", heap |-> hp]
            ELSE IF oom
            THEN [res |-> "SET_OUT_OF_MEMORY", heap |-> hp]
            ELSE [res |-> "SET_SUCCESS",
                  heap |-> [hp EXCEPT ![set].elems =
                               SubSeq(elems, 1, i - 1)
                               \o <<CopyElementFcn(element)>>
                               \o SubSeq(elems, i, Len(elems))]]

setRemove(hp, set, element) ==
    IF set = NULL THEN [res |-> "SET_NULL_ARGUMENT", heap |-> hp]
    ELSE LET elems == hp[set].elems
             i == ScanStop(elems, element)
         IN IF i <= Len(elems) /\ CompareElementFcn(elems[i], element) = 0
            THEN [res |-> "SET_SUCCESS",
                  heap |-> [hp EXCEPT ![set].elems =
                               SubSeq(elems, 1, i - 1)
                               \o SubSeq(elems, i + 1, Len(elems))]]
            ELSE [res |-> "SET_ITEM_DOES_NOT_EXIST", heap |-> hp]

setClear(hp, set) ==
    IF set = NULL THEN [res |-> "SET_NULL_ARGUMENT", heap |-> hp]
    ELSE [res |-> "SET_SUCCESS", heap |-> [hp EXCEPT ![set].elems = <<>>]]

----------------------------------------------------------------------------
\* set<T, CmpFcn>::const_iterator.  An iterator is [m_Owner, m_Current]; the
\* operators below take the heap and the owner's handle (m_Owner->m_CSet).

\* const_iterator::operator++: the new m_Current.
iter_increment(hp, h, cur) == setGetNext(hp, h, cur)

\* const_iterator::operator*: the element, NULL when InvalidIterator is thrown.
iter_deref(hp, h, cur) == setGetElement(hp, h, cur)

\* const_iterator::operator==.
iter_equal(cur, other) == cur = other

\* set::begin: m_Current of the iterator returned.
begin(hp, h) == setGetFirst(hp, h)

RECURSIVE end_loop(_, _, _)
end_loop(hp, h, cur) ==
    IF cur # NULL THEN end_loop(hp, h, iter_increment(hp, h, cur)) ELSE cur

\* set::end: begin() advanced until m_Current is NULL.
end(hp, h) == end_loop(hp, h, begin(hp, h))

\* set::size, where its assertion holds.
size(hp, h) == setGetSize(hp, h)

----------------------------------------------------------------------------
\* The member functions.  Each yields [exc, heap, set, pos, second]: the
\* exception thrown ("none" on a normal return, "abort" on a failed
\* assertion), the heap and the object's m_CSet afterwards, and the
\* returned iterator's m_Current and bool where there are any.

Outcome(e, hp, h, p, b) ==
    [exc |-> e, heap |-> hp, set |-> h, pos |-> p, second |-> b]

RECURSIVE find_loop(_, _, _, _)
find_loop(hp, h, cur, element) ==
    IF iter_equal(cur, end(hp, h))
    THEN Outcome("ElementNotFound", hp, h, NULL, FALSE)
    ELSE LET e == iter_deref(hp, h, cur) IN
         IF e = NULL THEN Outcome("InvalidIterator", hp, h, NULL, FALSE)
         ELSE IF e = element THEN Outcome("none", hp, h, cur, FALSE)
         ELSE find_loop(hp, h, iter_increment(hp, h, cur), element)

\* Mutant of find: the walk starts one past begin().
find_skips_first(hp, h, element) ==
    find_loop(hp, h, iter_increment(hp, h, begin(hp, h)), element)

\* set::find(T const&).
find(hp, h, element) == find_loop(hp, h, begin(hp, h), element)

RECURSIVE find_const_loop(_, _, _, _)
find_const_loop(hp, h, cur, element) ==
    IF iter_equal(cur, end(hp, h))
    THEN Outcome("ElementNotFound", hp, h, NULL, FALSE)
    ELSE LET e == iter_deref(hp, h, cur) IN
         IF e = NULL THEN Outcome("InvalidIterator", hp, h, NULL, FALSE)
         ELSE IF e = element THEN Outcome("none", hp, h, cur, FALSE)
         ELSE find_const_loop(hp, h, iter_increment(hp, h, cur), element)

\* set::find(T const&) const.
find_const(hp, h, element) == find_const_loop(hp, h, begin(hp, h), element)

\* Mutant of insert: SET_ITEM_ALREADY_EXISTS is not told from SET_SUCCESS.
insert_always_true(hp, h, data, oom) ==
    IF h = NULL THEN Outcome("abort", hp, h, NULL, FALSE)
    ELSE LET r == setAdd(hp, h, CopyElementFcn(data), oom)
             f == find(r.heap, h, data)
         IN IF r.res = "SET_NULL_ARGUMENT"
            THEN Outcome("abort", hp, h, NULL, FALSE)
            ELSE IF r.res = "SET_OUT_OF_MEMORY"
            THEN Outcome("Exception", r.heap, h, NULL, FALSE)
            ELSE IF f.exc # "none"
            THEN Outcome(f.exc, r.heap, h, NULL, FALSE)
            ELSE Outcome("none", r.heap, h, f.pos, TRUE)

\* set::insert.
insert(hp, h, data, oom) ==
    IF h = NULL THEN Outcome("abort", hp, h, NULL, FALSE)
    ELSE LET r == setAdd(hp, h, CopyElementFcn(data), oom)
             f == find(r.heap, h, data)
         IN IF r.res = "SET_NULL_ARGUMENT"
            THEN Outcome("abort", hp, h, NULL, FALSE)
            ELSE IF r.res = "SET_OUT_OF_MEMORY"
            THEN Outcome("Exception", r.heap, h, NULL, FALSE)
            ELSE IF f.exc # "none"
            THEN Outcome(f.exc, r.heap, h, NULL, FALSE)
            ELSE Outcome("none", r.heap, h, f.pos,
                         r.res # "SET_ITEM_ALREADY_EXISTS")

\* Mutant of erase: SET_ITEM_DOES_NOT_EXIST is not turned into a throw.
erase_silent(hp, h, element) ==
    IF h = NULL THEN Outcome("abort", hp, h, NULL, FALSE)
    ELSE Outcome("none", setRemove(hp, h, CopyElementFcn(element)).heap,
                 h, NULL, FALSE)

\* Mutant of erase: the element is looked up but not removed.
erase_keeps(hp, h, element) ==
    IF h = NULL THEN Outcome("abort", hp, h, NULL, FALSE)
    ELSE LET r == setRemove(hp, h, CopyElementFcn(element)) IN
         IF r.res = "SET_ITEM_DOES_NOT_EXIST"
         THEN Outcome("ElementNotFound", hp, h, NULL, FALSE)
         ELSE Outcome("none", hp, h, NULL, FALSE)

\* set::erase(T const&).
erase(hp, h, element) ==
    IF h = NULL THEN Outcome("abort", hp, h, NULL, FALSE)
    ELSE LET r == setRemove(hp, h, CopyElementFcn(element)) IN
         IF r.res = "SET_ITEM_DOES_NOT_EXIST"
         THEN Outcome("ElementNotFound", r.heap, h, NULL, FALSE)
         ELSE Outcome("none", r.heap, h, NULL, FALSE)

\* Mutant of erase(const_iterator): the iterator's m_Current is handed to the
\* engine without operator*'s check.
erase_iter_unchecked(hp, h, iterH, cur) ==
    erase(hp, h, setGetElement(hp, iterH, cur))

\* set::erase(const_iterator): iterH is iter.m_Owner->m_CSet.
erase_iter(hp, h, iterH, cur) ==
    LET e == iter_deref(hp, iterH, cur) IN
    IF e = NULL THEN Outcome("InvalidIterator", hp, h, NULL, FALSE)
    ELSE erase(hp, h, e)

\* Mutant of clear: setClear is not called.
clear_nothing(hp, h) ==
    IF h = NULL THEN Outcome("abort", hp, h, NULL, FALSE)
    ELSE Outcome("none", hp, h, NULL, FALSE)

\* set::clear.
clear(hp, h) ==
    IF h = NULL THEN Outcome("abort", hp, h, NULL, FALSE)
    ELSE Outcome("none", setClear(hp, h).heap, h, NULL, FALSE)

\* set::set().
set_ctor(hp, oom) ==
    LET r == setCreate(hp, oom) IN
    Outcome(IF r.set = NULL THEN "Exception" ELSE "none",
            r.heap, r.set, NULL, FALSE)

\* Mutant of the copy constructor: the source's handle is shared, not copied.
set_copy_ctor_shallow(hp, sourceH, oom) ==
    Outcome(IF sourceH = NULL THEN "Exception" ELSE "none",
            hp, sourceH, NULL, FALSE)

\* set::set(const set&).
set_copy_ctor(hp, sourceH, oom) ==
    LET r == setCopy(hp, sourceH, oom) IN
    Outcome(IF r.set = NULL THEN "Exception" ELSE "none",
            r.heap, r.set, NULL, FALSE)

\* set::operator=: same is (this == &sourceSet).
operator_assign(hp, h, sourceH, same, oom) ==
    IF same THEN Outcome("none", hp, h, NULL, FALSE)
    ELSE LET r == setCopy(setDestroy(hp, h), sourceH, oom) IN
         Outcome(IF r.set = NULL THEN "Exception" ELSE "none",
                 r.heap, r.set, NULL, FALSE)

----------------------------------------------------------------------------
\* The program: calls of the member functions on the set objects, and the
\* caller's iterator.

EmptyHeap == [a \in Addr |-> FreeCell]

NoIterator == [m_Owner |-> "none", m_Current |-> NULL]

\* The record of a call: the function, the object, the source object (copy
\* construction and assignment; for erase(iter), the iterator's owner), the
\* value argument (for erase(iter), what the iterator dereferenced to, NULL
\* if nothing), the outcome, and the heap before the call.
Call(op, s, src, arg, r, hp) ==
    [op |-> op, set |-> s, src |-> src, arg |-> arg, exc |-> r.exc,
     pos |-> r.pos, second |-> r.second, pre |-> hp]

\* The program has not been ended by a failed assertion.
Running == last.exc # "abort"

\* The values an iterator of s may hold once the engine has changed the
\* structure of s's handle: the iterator's value is undefined then
\* (mtm_set.h: "Iterator's value is undefined after this operation"): NULL,
\* any slot, or a position that is no slot.
StaleIterators(s, hp, h) ==
    IF it.m_Owner = s
    THEN {[it EXCEPT !.m_Current = c] : c \in 0..(setGetSize(hp, h) + 1)}
    ELSE {it}

\* The program has run "set<int> sett;" (set_test.cpp:16): sett is an empty
\* set holding the first handle; set2 is not constructed yet.
Init ==
    /\ heap = set_ctor(EmptyHeap, FALSE).heap
    /\ m_CSet = [s \in SetIds |->
                    IF s = "sett" THEN set_ctor(EmptyHeap, FALSE).set ELSE NULL]
    /\ constructed = [s \in SetIds |-> s = "sett"]
    /\ it = NoIterator
    /\ cmp = "less"
    /\ last = Call("set", "sett", "none", NULL,
                   set_ctor(EmptyHeap, FALSE), EmptyHeap)

\* set<int> s;
Construct(s, oom) ==
    /\ Running /\ ~constructed[s]
    /\ LET r == set_ctor(heap, oom) IN
       /\ heap' = r.heap
       /\ m_CSet' = [m_CSet EXCEPT ![s] = r.set]
       /\ constructed' = [constructed EXCEPT ![s] = (r.exc = "none")]
       /\ last' = Call("set", s, "none", NULL, r, heap)
    /\ UNCHANGED <<it, cmp>>

\* set<int> s(src);
CopyConstruct(s, src, oom) ==
    /\ Running /\ ~constructed[s] /\ constructed[src]
    /\ LET r == set_copy_ctor(heap, m_CSet[src], oom) IN
       /\ heap' = r.heap
       /\ m_CSet' = [m_CSet EXCEPT ![s] = r.set]
       /\ constructed' = [constructed EXCEPT ![s] = (r.exc = "none")]
       /\ last' = Call("copy", s, src, NULL, r, heap)
    /\ UNCHANGED <<it, cmp>>

\* s = src;
Assign(s, src, oom) ==
    /\ Running /\ constructed[s] /\ constructed[src]
    /\ LET r == operator_assign(heap, m_CSet[s], m_CSet[src], s = src, oom) IN
       /\ heap' = r.heap
       /\ m_CSet' = [m_CSet EXCEPT ![s] = r.set]
       /\ last' = Call("assign", s, src, NULL, r, heap)
       /\ IF s = src THEN it' = it
          ELSE it' \in StaleIterators(s, r.heap, r.set)
    /\ UNCHANGED <<constructed, cmp>>

\* s.insert(data); the returned pair is recorded in last.
Insert(s, data, oom) ==
    /\ Running /\ constructed[s]
    /\ LET r == insert(heap, m_CSet[s], data, oom) IN
       /\ heap' = r.heap
       /\ last' = Call("insert", s, "none", data, r, heap)
       /\ IF r.heap # heap
          THEN it' \in StaleIterators(s, r.heap, r.set)
          ELSE it' = it
    /\ UNCHANGED <<m_CSet, constructed, cmp>>

\* s.erase(element);
EraseValue(s, element) ==
    /\ Running /\ constructed[s]
    /\ LET r == erase(heap, m_CSet[s], element) IN
       /\ heap' = r.heap
       /\ last' = Call("erase", s, "none", element, r, heap)
       /\ IF r.heap # heap
          THEN it' \in StaleIterators(s, r.heap, r.set)
          ELSE it' = it
    /\ UNCHANGED <<m_CSet, constructed, cmp>>

\* s.erase(it);
EraseIter(s) ==
    /\ Running /\ constructed[s] /\ it.m_Owner # "none"
    /\ LET r == erase_iter(heap, m_CSet[s], m_CSet[it.m_Owner], it.m_Current) IN
       /\ heap' = r.heap
       /\ last' = Call("erase_iter", s, it.m_Owner,
                       iter_deref(heap, m_CSet[it.m_Owner], it.m_Current),
                       r, heap)
       /\ IF r.heap # heap
          THEN it' \in StaleIterators(s, r.heap, r.set)
          ELSE it' = it
    /\ UNCHANGED <<m_CSet, constructed, cmp>>

\* s.clear();
Clear(s) ==
    /\ Running /\ constructed[s]
    /\ LET r == clear(heap, m_CSet[s]) IN
       /\ heap' = r.heap
       /\ last' = Call("clear", s, "none", NULL, r, heap)
       /\ IF r.exc = "none"
          THEN it' \in StaleIterators(s, r.heap, r.set)
          ELSE it' = it
    /\ UNCHANGED <<m_CSet, constructed, cmp>>

\* it = s.find(element), through a const reference when isConst.
Find(s, element, isConst) ==
    /\ Running /\ constructed[s]
    /\ LET r == IF isConst THEN find_const(heap, m_CSet[s], element)
                ELSE find(heap, m_CSet[s], element) IN
       /\ last' = Call(IF isConst THEN "find_const" ELSE "find",
                       s, "none", element, r, heap)
       /\ IF r.exc = "none"
          THEN it' = [m_Owner |-> s, m_Current |-> r.pos]
          ELSE it' = it
    /\ UNCHANGED <<heap, m_CSet, constructed, cmp>>

\* it = s.begin();
Begin(s) ==
    /\ Running /\ constructed[s]
    /\ it' = [m_Owner |-> s, m_Current |-> begin(heap, m_CSet[s])]
    /\ last' = Call("begin", s, "none", NULL,
                    Outcome("none", heap, NULL, it'.m_Current, FALSE),
                    heap)
    /\ UNCHANGED <<heap, m_CSet, constructed, cmp>>

\* it = s.end();
End(s) ==
    /\ Running /\ constructed[s]
    /\ it' = [m_Owner |-> s, m_Current |-> end(heap, m_CSet[s])]
    /\ last' = Call("end", s, "none", NULL,
                    Outcome("none", heap, NULL, it'.m_Current, FALSE),
                    heap)
    /\ UNCHANGED <<heap, m_CSet, constructed, cmp>>

\* ++it;
Increment ==
    /\ Running /\ it.m_Owner # "none"
    /\ it' = [it EXCEPT !.m_Current =
                 iter_increment(heap, m_CSet[it.m_Owner], it.m_Current)]
    /\ last' = Call("increment", it.m_Owner, "none", NULL,
                    Outcome("none", heap, NULL, it'.m_Current, FALSE),
                    heap)
    /\ UNCHANGED <<heap, m_CSet, constructed, cmp>>

Next ==
    \/ \E s \in SetIds, oom \in BOOLEAN : Construct(s, oom)
    \/ \E s \in SetIds, src \in SetIds, oom \in BOOLEAN : CopyConstruct(s, src, oom)
    \/ \E s \in SetIds, src \in SetIds, oom \in BOOLEAN : Assign(s, src, oom)
    \/ \E s \in SetIds, data \in Values, oom \in BOOLEAN : Insert(s, data, oom)
    \/ \E s \in SetIds, element \in Values : EraseValue(s, element)
    \/ \E s \in SetIds : EraseIter(s)
    \/ \E s \in SetIds : Clear(s)
    \/ \E s \in SetIds, element \in Values, isConst \in BOOLEAN :
           Find(s, element, isConst)
    \/ \E s \in SetIds : Begin(s)
    \/ \E s \in SetIds : End(s)
    \/ Increment

Spec == Init /\ [][Next]_vars

\* The order predicates a program may instantiate set<int, CmpFcn> with.
Orders == {"less", "lessHalf"}

\* As Init, for a program that instantiates its sets with either order.
InitAnyOrder ==
    /\ heap = set_ctor(EmptyHeap, FALSE).heap
    /\ m_CSet = [s \in SetIds |->
                    IF s = "sett" THEN set_ctor(EmptyHeap, FALSE).set ELSE NULL]
    /\ constructed = [s \in SetIds |-> s = "sett"]
    /\ it = NoIterator
    /\ cmp \in Orders
    /\ last = Call("set", "sett", "none", NULL,
                   set_ctor(EmptyHeap, FALSE), EmptyHeap)

SpecAnyOrder == InitAnyOrder /\ [][Next]_vars

----------------------------------------------------------------------------
\* What a caller observes of a set.

RECURSIVE walk_loop(_, _, _)
walk_loop(hp, h, cur) ==
    IF iter_equal(cur, end(hp, h)) THEN <<>>
    ELSE <<iter_deref(hp, h, cur)>>
         \o walk_loop(hp, h, iter_increment(hp, h, cur))

\* The values visited by for (it = begin(); it != end(); ++it) *it.
Walk(hp, h) == walk_loop(hp, h, begin(hp, h))

\* The members: the values the walk visits.
Members(hp, h) == {Walk(hp, h)[i] : i \in 1..Len(Walk(hp, h))}

\* The handle of the object the last call was made on.
LastH == m_CSet[last.set]

----------------------------------------------------------------------------
\* C1: in every reachable state, walking any constructed set from begin()
\* with ++ until end() visits values in strictly ascending order under the
\* order predicate, so no value is visited twice; and the walk of a set
\* that holds a handle visits size() values.
C1_AscendingWalk ==
    \A s \in SetIds :
        constructed[s] =>
            LET w == Walk(heap, m_CSet[s]) IN
            /\ \A i \in 1..(Len(w) - 1) : CmpFcn(w[i], w[i + 1])
            /\ \A i \in 1..Len(w) : \A j \in 1..Len(w) : i # j => w[i] # w[j]
            /\ m_CSet[s] # NULL => Len(w) = size(heap, m_CSet[s])

\* C1 witness: a smaller value was inserted after a larger one, between two
\* stored values, and the walk visits all three in ascending order.
C1_Witness ==
    /\ last.op = "insert" /\ last.exc = "none" /\ last.second
    /\ last.arg = 2
    /\ Walk(last.pre, LastH) = <<1, 3>>
    /\ Walk(heap, LastH) = <<1, 2, 3>>

\* C2: an insert(v) that is not stopped by a failed assertion: if v was a
\* member it returns inserted = false and the size and members are unchanged;
\* if v was absent it either returns inserted = true, with the size one
\* larger, v a member and the other members kept, or (the engine being out
\* of memory) throws Exception; it never throws for a duplicate.
C2_InsertReportsDuplicate ==
    last.op = "insert" /\ last.exc # "abort" =>
        LET v == last.arg
            before == Members(last.pre, LastH)
            after == Members(heap, LastH)
        IN IF v \in before
           THEN /\ last.exc = "none" /\ ~last.second
                /\ size(heap, LastH) = size(last.pre, LastH)
                /\ after = before
           ELSE \/ /\ last.exc = "none" /\ last.second
                   /\ size(heap, LastH) = size(last.pre, LastH) + 1
                   /\ after = before \cup {v}
                \/ last.exc = "Exception"

\* C2 witness: a duplicate was inserted into a set of two and reported.
C2_Witness ==
    /\ last.op = "insert" /\ last.exc = "none" /\ ~last.second
    /\ last.arg \in Members(last.pre, LastH)
    /\ size(heap, LastH) = 2

C4_EraseAbsentThrows ==
    (/\ last.op = "erase" /\ last.exc # "abort"
     /\ last.arg \notin Members(last.pre, LastH)) =>
        /\ last.exc = "ElementNotFound"
        /\ size(heap, LastH) = size(last.pre, LastH)
        /\ Walk(heap, LastH) = Walk(last.pre, LastH)

\* C4 witness: an absent value was erased from a set that has members.
C4_Witness ==
    /\ last.op = "erase" /\ last.exc = "ElementNotFound"
    /\ last.arg \notin Members(last.pre, LastH)
    /\ size(last.pre, LastH) = 2

C6_DeepCopyIsolation ==
    /\ (last.op \in {"copy", "assign"} /\ last.exc = "none") =>
          /\ Walk(heap, LastH) = Walk(heap, m_CSet[last.src])
          /\ size(heap, LastH) = size(heap, m_CSet[last.src])
          /\ last.set # last.src =>
                Walk(heap, m_CSet[last.src]) = Walk(last.pre, m_CSet[last.src])
    /\ last.op \in {"insert", "erase", "erase_iter", "clear"} =>
          \A s \in SetIds :
              constructed[s] /\ s # last.set =>
                  /\ Walk(heap, m_CSet[s]) = Walk(last.pre, m_CSet[s])
                  /\ setGetSize(heap, m_CSet[s]) = setGetSize(last.pre, m_CSet[s])

\* C6 witness: the scenario of set_test.cpp: 2 was erased from set2 while
\* both sets held 1 and 2; sett still holds 2 and set2 is one smaller.
C6_Witness ==
    /\ last.op = "erase" /\ last.set = "set2" /\ last.arg = 2
    /\ last.exc = "none"
    /\ Walk(last.pre, m_CSet["set2"]) = <<1, 2>>
    /\ Walk(heap, m_CSet["sett"]) = <<1, 2>>
    /\ size(heap, m_CSet["set2"]) = size(heap, m_CSet["sett"]) - 1

\* Every find, through either overload, throws ElementNotFound on handle h.
AllFindsFail(hp, h) ==
    \A v \in Values :
        /\ find(hp, h, v).exc = "ElementNotFound"
        /\ find_const(hp, h, v).exc = "ElementNotFound"

C8_ErasePosition ==
    last.op = "erase_iter" =>
        IF last.arg = NULL
        THEN /\ last.exc = "InvalidIterator"
             /\ Walk(heap, LastH) = Walk(last.pre, LastH)
             /\ setGetSize(heap, LastH) = setGetSize(last.pre, LastH)
        ELSE last.src = last.set =>
             /\ last.exc = "none"
             /\ Members(heap, LastH) = Members(last.pre, LastH) \ {last.arg}
             /\ size(heap, LastH) = size(last.pre, LastH) - 1

\* C8 witness: erase(end()) on a set of two threw InvalidIterator.
C8_Witness ==
    /\ last.op = "erase_iter" /\ last.exc = "InvalidIterator"
    /\ last.src = last.set
    /\ it.m_Current = end(heap, LastH)
    /\ size(heap, LastH) = 2

\* C9 (as documented in mtm_set.hpp:130-141): a find, through either
\* overload, of a value that is not a member returns a position that
\* compares equal to end().
C9_FindAbsentReturnsEnd ==
    (/\ last.op \in {"find", "find_const"}
     /\ last.arg \notin Members(last.pre, LastH)) =>
        /\ last.exc = "none"
        /\ iter_equal(last.pos, end(heap, LastH))

\* The value that follows x in the walk of handle h, NULL if x is the last
\* value or is not visited.
Successor(hp, h, x) ==
    LET w == Walk(hp, h) IN
    IF \E i \in 1..(Len(w) - 1) : w[i] = x
    THEN w[(CHOOSE i \in 1..(Len(w) - 1) : w[i] = x) + 1]
    ELSE NULL

\* C10 (as documented in mtm_set.hpp:142-170): an iterator that pointed to
\* an element before an insert, or before an erase of another element, of
\* its set still dereferences to that element afterwards, and ++ takes it to
\* the element that follows in ascending order.
C10_IteratorsStayValid ==
    [][ LET h == m_CSet[it.m_Owner]
            x == iter_deref(heap, h, it.m_Current)
        IN (/\ it.m_Owner # "none"
            /\ last'.op \in {"insert", "erase"}
            /\ last'.set = it.m_Owner
            /\ last'.exc = "none"
            /\ x # NULL
            /\ last'.op = "erase" => last'.arg # x) =>
               /\ it'.m_Owner = it.m_Owner
               /\ iter_deref(heap', h, it'.m_Current) = x
               /\ iter_deref(heap', h,
                             iter_increment(heap', h, it'.m_Current))
                      = Successor(heap', h, x)
      ]_vars

\* C11: under every order predicate, an insert(v) that is stopped neither by
\* a failed assertion nor by the engine being out of memory returns, with a
\* position that points to a stored element equivalent to v under the
\* predicate (neither is less than the other); in particular it does not
\* throw ElementNotFound.
C11_InsertLocatesEquivalent ==
    (last.op = "insert" /\ last.exc \notin {"abort", "Exception"}) =>
        /\ last.exc = "none"
        /\ LET e == iter_deref(heap, LastH, last.pos) IN
           /\ e # NULL
           /\ ~CmpFcn(e, last.arg)
           /\ ~CmpFcn(last.arg, e)

\* The exceptions a member function throws.
Raised == {"Exception", "ElementNotFound", "InvalidIterator"}

\* C12: a call on a constructed set that holds a handle, if it throws,
\* leaves the set with a handle and with the walk and size it had before
\* (or, for an assignment, with the walk of its source); a self-assignment
\* returns and changes nothing.  This covers the assignment whose engine
\* copy is out of memory and the insert that is out of memory.
C12_FailuresLeaveSetIntact ==
    [][ LET s == last'.set IN
        /\ (/\ s \in SetIds
            /\ constructed[s] /\ m_CSet[s] # NULL
            /\ last'.exc \in Raised) =>
               /\ m_CSet'[s] # NULL
               /\ \/ /\ Walk(heap', m_CSet'[s]) = Walk(heap, m_CSet[s])
                     /\ size(heap', m_CSet'[s]) = size(heap, m_CSet[s])
                  \/ /\ last'.op = "assign"
                     /\ Walk(heap', m_CSet'[s]) = Walk(heap, m_CSet[last'.src])
        /\ (last'.op = "assign" /\ last'.src = s) =>
               /\ last'.exc = "none"
               /\ heap' = heap /\ m_CSet' = m_CSet
      ]_vars

====
